---- MODULE Spec2Model ----
(***************************************************************************)
(* Planning Center connector (source_planning_center/source.py).           *)
(*                                                                         *)
(* The model covers the pagination cursor extraction, the request          *)
(* parameter builder, the response parser, the per-family version header,  *)
(* the parent-driven read_records of the three child streams and the       *)
(* stream list handed to the host framework.  The host framework's page    *)
(* loop (HttpStream.read_records) is modelled from the traversal protocol  *)
(* of the specification, section 4.5.                                      *)
(***************************************************************************)
EXTENDS Integers, Sequences, FiniteSets, TLC

VARIABLES
    streamList,    \* result of SourcePlanningCenter.streams(config); <<>> before the call
    auth,          \* the BasicAuthenticator built by streams(config)
    cls,           \* class of the stream whose read_records is being iterated
    pc,            \* "idle" | "request" | "await" | "done" | "failed"
    who,           \* "parent": the nested parent traversal runs; "self": the stream's own
    ptok,          \* next_page_token of the parent traversal's loop
    presp,         \* pagination part of the parent traversal's last response (NoBody before the first)
    pending,       \* parent records of the fetched parent page not yet handed to the loop body
    cur,           \* stream_slice of the stream's own traversal (None for a top-level stream)
    tok,           \* next_page_token of the stream's own traversal loop
    resp,          \* pagination part of the own traversal's last response (NoBody before the first)
    parsed,        \* what parse_response returned for the page handled last (NoBody once
                   \* the next request is sent)
    trav,          \* ordinal of the child's own traversal (0 for a top-level stream)
    req,           \* <<r>>: the request in flight; <<>> when none is
    emitted,       \* records yielded by this invocation, in order
    nreq,          \* requests issued so far, over all invocations
    nChildReq,     \* requests of the child's own traversals issued by this invocation
    raised,        \* a request of this invocation raised
    parents,       \* parent records the parent traversal yielded in this invocation, in order
    invocation,    \* read_records invocations started so far
    nChildInv,     \* of these, invocations of a child stream
    nParentFirst   \* parent requests issued without an offset key, over all invocations

vars == <<streamList, auth, cls, pc, who, ptok, presp, pending, cur, tok, resp,
          parsed, trav, req, emitted, nreq, nChildReq, raised, parents,
          invocation, nChildInv, nParentFirst>>

-----------------------------------------------------------------------------
(* Bounds of the model.                                                    *)

MaxRequests == 3        \* requests issued in one behaviour, over all invocations

(* Program constants.                                                      *)

PerPage == 100

-----------------------------------------------------------------------------
(* Python / JSON values.  Every value is a record tagged by k.             *)

None == [k |-> "None"]
Str(s) == [k |-> "str", s |-> s]
Num(n) == [k |-> "int", n |-> n]
List(items) == [k |-> "list", items |-> items]
Dict(f) == [k |-> "dict", f |-> f]
Raise(e) == [k |-> "raise", e |-> e]

EmptyDict == Dict([x \in {} |-> None])

(* obj.get(key): AttributeError unless obj is a dict; None for a missing   *)
(* key.  An exception raised while evaluating obj propagates.              *)
get(obj, key) ==
    IF obj.k = "raise" THEN obj
    ELSE IF obj.k # "dict" THEN Raise("AttributeError")
    ELSE IF key \in DOMAIN obj.f THEN obj.f[key]
    ELSE None

(* Python truth value of the values a page token can take.                 *)
Truthy(v) ==
    CASE v.k = "None" -> FALSE
      [] v.k = "dict" -> DOMAIN v.f # {}
      [] v.k = "int" -> v.n # 0
      [] v.k = "list" -> v.items # <<>>
      [] OTHER -> TRUE

-----------------------------------------------------------------------------
(* Response bodies the server may answer with.                             *)

Offsets == {0, 1}
RecIds == {"P1", "P2"}

Record(id) == Dict([id |-> Str(id)])

NonObjects == {None, Str("x"), List(<<>>), Num(7)}

OffsetVals == {None} \cup {Num(n) : n \in Offsets}
NextVals == NonObjects \cup {EmptyDict} \cup {Dict([offset |-> v]) : v \in OffsetVals}
MetaVals == NonObjects \cup {EmptyDict} \cup {Dict([next |-> n]) : n \in NextVals}

Pages == {<<>>} \cup {<<Record(a)>> : a \in RecIds}
         \cup {<<Record(ab[1]), Record(ab[2])>> :
                  ab \in {x \in RecIds \X RecIds : x[1] # x[2]}}

Bodies ==
    {EmptyDict}
    \cup {Dict([meta |-> m]) : m \in MetaVals}
    \cup {Dict([data |-> List(p)]) : p \in Pages}
    \cup {Dict([meta |-> m, data |-> List(p)]) : m \in MetaVals, p \in Pages}

NoBody == [k |-> "nobody"]

(* The body has a value at meta.next.offset.                               *)
HasOffset(body) ==
    /\ body.k = "dict" /\ "meta" \in DOMAIN body.f
    /\ body.f["meta"].k = "dict" /\ "next" \in DOMAIN body.f["meta"].f
    /\ body.f["meta"].f["next"].k = "dict"
    /\ "offset" \in DOMAIN body.f["meta"].f["next"].f

(* The pagination part of a body: the body without its data.              *)
Envelope(body) ==
    IF body.k = "dict" /\ "meta" \in DOMAIN body.f
    THEN Dict([meta |-> body.f["meta"]])
    ELSE EmptyDict

-----------------------------------------------------------------------------
(* BasicAuthenticator.                                                     *)

BasicAuthenticator(app_id, secret) == [app_id |-> app_id, secret |-> secret]

(* requests.auth._basic_auth_str: "Basic " + base64(app_id ":" secret).    *)
(* The encoding is kept symbolic: a tagged pair of the two credentials.    *)
get_auth_header(a) ==
    "Authorization" :> <<"Basic", "b64", a.app_id, ":", a.secret>>

-----------------------------------------------------------------------------
(* PlanningCenterStream.                                                   *)

(* response.json().get("meta").get("next").get("offset") wrapped in a      *)
(* dict; AttributeError and KeyError are caught and give None.             *)
next_page_token(body) ==
    LET v == get(get(get(body, "meta"), "next"), "offset")
    IN  IF v.k = "raise"
        THEN IF v.e \in {"AttributeError", "KeyError"} THEN None ELSE v
        ELSE Dict([offset |-> v])

(* {"per_page": 100}, plus "offset" when the token is truthy.              *)
request_params(next_token) ==
    IF Truthy(next_token)
    THEN [per_page |-> PerPage, offset |-> get(next_token, "offset")]
    ELSE [per_page |-> PerPage]

(* Variant: response.json()["data"], which raises for a missing key.       *)
parse_response_indexed(body) ==
    IF body.k # "dict" THEN Raise("TypeError")
    ELSE IF "data" \in DOMAIN body.f THEN body.f["data"]
    ELSE Raise("KeyError")

(* response.json().get("data")                                             *)
parse_response(body) == get(body, "data")

-----------------------------------------------------------------------------
(* The stream classes.                                                     *)

GroupsStreams ==
    {"GroupsAttendance", "GroupsEvent", "GroupsGroup", "GroupsGroupType",
     "GroupsMembership"}
PeopleStreams ==
    {"PeopleAddress", "PeopleCampus", "PeopleEmail", "PeopleHousehold",
     "PeoplePerson", "PeoplePhoneNumber"}
StreamClasses == GroupsStreams \cup PeopleStreams

(* The streams that override read_records to iterate a parent stream.      *)
ChildStreams == {"GroupsAttendance", "GroupsMembership", "PeoplePhoneNumber"}

(* The stream a child's read_records instantiates and iterates.            *)
ParentOf(c) ==
    CASE c = "GroupsAttendance" -> "GroupsEvent"
      [] c = "GroupsMembership" -> "GroupsGroup"
      [] c = "PeoplePhoneNumber" -> "PeoplePerson"

(* Key of the stream_slice a child's read_records passes down.             *)
SliceKey(c) ==
    CASE c = "GroupsAttendance" -> "event_id"
      [] c = "GroupsMembership" -> "group_id"
      [] c = "PeoplePhoneNumber" -> "person_id"

(* stream_slice={"<key>": parent["id"]}                                    *)
SliceFor(c, parent) == Dict(SliceKey(c) :> parent.f["id"])

PlanningCenterGroupsStream_url_base == "https://api.planningcenteronline.com/groups/v2/"
PlanningCenterPeopleStream_url_base == "https://api.planningcenteronline.com/people/v2/"

url_base(c) ==
    IF c \in GroupsStreams THEN PlanningCenterGroupsStream_url_base
    ELSE PlanningCenterPeopleStream_url_base

PlanningCenterGroupsStream_request_headers == "X-PCO-API-Version" :> "2018-08-01"
PlanningCenterPeopleStream_request_headers == "X-PCO-API-Version" :> "2020-07-22"

(* Variant: the People base class left with the Groups version.           *)
request_headers_one_version(c) == PlanningCenterGroupsStream_request_headers

request_headers(c) ==
    IF c \in GroupsStreams THEN PlanningCenterGroupsStream_request_headers
    ELSE PlanningCenterPeopleStream_request_headers

(* path(): the segments of the relative URL.  A child stream formats the   *)
(* id found in its stream_slice into the path.                             *)
path(c, stream_slice) ==
    CASE c = "GroupsAttendance" ->
            <<"groups", stream_slice.f["event_id"].s, "attendances">>
      [] c = "GroupsEvent" -> <<"events">>
      [] c = "GroupsGroup" -> <<"groups">>
      [] c = "GroupsGroupType" -> <<"group_types">>
      [] c = "GroupsMembership" ->
            <<"groups", stream_slice.f["group_id"].s, "memberships">>
      [] c = "PeopleAddress" -> <<"addresses">>
      [] c = "PeopleCampus" -> <<"campuses">>
      [] c = "PeopleEmail" -> <<"emails">>
      [] c = "PeopleHousehold" -> <<"households">>
      [] c = "PeoplePerson" -> <<"people">>
      [] c = "PeoplePhoneNumber" ->
            <<"people", stream_slice.f["person_id"].s, "phone_numbers">>

-----------------------------------------------------------------------------
(* SourcePlanningCenter.streams: the list handed to the host framework.    *)

streams(a) ==
    << [cls |-> "GroupsEvent", authenticator |-> a],
       [cls |-> "GroupsGroupType", authenticator |-> a],
       [cls |-> "GroupsGroup", authenticator |-> a],
       [cls |-> "PeoplePerson", authenticator |-> a],
       [cls |-> "PeopleAddress", authenticator |-> a],
       [cls |-> "PeopleEmail", authenticator |-> a],
       [cls |-> "PeopleHousehold", authenticator |-> a],
       [cls |-> "PeopleCampus", authenticator |-> a] >>

-----------------------------------------------------------------------------
(* The host framework's page loop (HttpStream.read_records).               *)

(* The records the loop yields for one page: the parsed array, and no      *)
(* records when the parser returned no array.                              *)
page_records(result) == IF result.k = "list" THEN result.items ELSE <<>>

(* The loop ends when the next cursor is empty.                            *)
pagination_complete(next_token) == ~Truthy(next_token)

(* The request the loop prepares for stream class c.                       *)
prepared_request(c, stream_slice, next_token, a) ==
    [stream |-> c,
     url_base |-> url_base(c),
     path |-> path(c, stream_slice),
     headers |-> request_headers(c) @@ get_auth_header(a),
     params |-> request_params(next_token)]

-----------------------------------------------------------------------------
(* read_records of the child streams.                                      *)

(* parent_stream = Parent(authenticator=self.authenticator), then          *)
(* parent_stream.read_records(...): a new parent stream on every call,     *)
(* whose page loop starts without a token, whatever an earlier call left.  *)
new_parent_token_kept(left_over) == left_over    \* variant: the parent stream is kept
new_parent_token(left_over) == None

(* for parent in parent_stream.read_records(...): the loop body runs for   *)
(* a parent record as soon as the parent's generator yields it, that is    *)
(* while the parent's page loop is suspended inside the page just fetched. *)
loop_body_runs_after_parent(waiting, parent_body) ==
    \* variant: the parent's records are collected to the end first
    waiting # <<>> /\ pagination_complete(next_page_token(parent_body))
loop_body_runs(waiting, parent_body) == waiting # <<>>

(* The parent record the loop body is run for next.                        *)
next_parent_last(waiting) == waiting[Len(waiting)]    \* variant: taken from the end
next_parent(waiting) == Head(waiting)
rest_parents(waiting) == Tail(waiting)

(* yield from super().read_records(stream_slice=...): nothing catches an   *)
(* exception of the child's own traversal, so it leaves read_records.      *)
after_raise_skips_parent(waiting) ==
    \* variant: the exception is caught per parent and the loop goes on
    IF waiting # <<>> THEN "request" ELSE "failed"
after_raise(waiting) == "failed"

(* The records as read_records yields them: each with the stream_slice     *)
(* and the ordinal of the traversal that produced it.                      *)
Yielded(recs, stream_slice, t) ==
    [i \in 1..Len(recs) |-> [rec |-> recs[i], slice |-> stream_slice, trav |-> t]]

-----------------------------------------------------------------------------
Init ==
    /\ streamList = <<>>
    /\ auth = BasicAuthenticator("", "")
    /\ cls = ""
    /\ pc = "idle"
    /\ who = "self"
    /\ ptok = None
    /\ presp = NoBody
    /\ pending = <<>>
    /\ cur = None
    /\ tok = None
    /\ resp = NoBody
    /\ parsed = NoBody
    /\ trav = 0
    /\ req = <<>>
    /\ emitted = <<>>
    /\ nreq = 0
    /\ nChildReq = 0
    /\ raised = FALSE
    /\ parents = <<>>
    /\ invocation = 0
    /\ nChildInv = 0
    /\ nParentFirst = 0

AppIds == {"abc"}
Secrets == {"xyz"}

(* SourcePlanningCenter.streams(config)                                    *)
Streams(app_id, secret) ==
    /\ pc = "idle"
    /\ streamList = <<>>
    /\ auth' = BasicAuthenticator(app_id, secret)
    /\ streamList' = streams(auth')
    /\ UNCHANGED <<cls, pc, who, ptok, presp, pending, cur, tok, resp, parsed,
                   trav, req, emitted, nreq, nChildReq, raised, parents,
                   invocation, nChildInv, nParentFirst>>

(* The iteration of c(authenticator=auth).read_records(...) begins.        *)
Invoke(c) ==
    /\ streamList # <<>>
    /\ pc \in {"idle", "done", "failed"}
    /\ nreq < MaxRequests
    /\ cls' = c
    /\ pc' = "request"
    /\ who' = IF c \in ChildStreams THEN "parent" ELSE "self"
    /\ ptok' = IF c \in ChildStreams THEN new_parent_token(ptok) ELSE None
    /\ presp' = NoBody
    /\ pending' = <<>>
    /\ cur' = None
    /\ tok' = None
    /\ resp' = NoBody
    /\ parsed' = NoBody
    /\ trav' = 0
    /\ req' = <<>>
    /\ emitted' = <<>>
    /\ nChildReq' = 0
    /\ raised' = FALSE
    /\ parents' = <<>>
    /\ invocation' = invocation + 1
    /\ nChildInv' = IF c \in ChildStreams THEN nChildInv + 1 ELSE nChildInv
    /\ UNCHANGED <<streamList, auth, nreq, nParentFirst>>

(* The page loop running (the parent's or the stream's own) prepares and  *)
(* sends its next request.                                                 *)
SendRequest ==
    /\ pc = "request"
    /\ nreq < MaxRequests
    /\ LET r == IF who = "parent"
                THEN prepared_request(ParentOf(cls), None, ptok, auth)
                ELSE prepared_request(cls, cur, tok, auth)
       IN  /\ req' = <<r @@ [who |-> who]>>
           /\ nParentFirst' =
                 IF who = "parent" /\ "offset" \notin DOMAIN r.params
                 THEN nParentFirst + 1 ELSE nParentFirst
    /\ nreq' = nreq + 1
    /\ nChildReq' = IF who = "self" /\ cls \in ChildStreams
                    THEN nChildReq + 1 ELSE nChildReq
    /\ parsed' = NoBody
    /\ pc' = "await"
    /\ UNCHANGED <<streamList, auth, cls, who, ptok, presp, pending, cur, tok,
                   resp, trav, emitted, raised, parents, invocation, nChildInv>>

(* The child's loop body starts the child's own traversal for the next     *)
(* waiting parent record.                                                  *)
StartChildTraversal(waiting) ==
    /\ cur' = SliceFor(cls, next_parent(waiting))
    /\ pending' = rest_parents(waiting)
    /\ who' = "self"
    /\ tok' = None
    /\ resp' = NoBody
    /\ trav' = trav + 1
    /\ pc' = "request"

(* The parent's page loop resumes after the records of its last page:      *)
(* it computes the next cursor and goes on or ends, which ends the child's *)
(* read_records too.                                                       *)
ResumeParent(parent_body) ==
    LET t == next_page_token(parent_body)
    IN  /\ who' = "parent"
        /\ ptok' = t
        /\ IF pagination_complete(t)
           THEN pc' = "done" /\ presp' = NoBody
           ELSE pc' = "request" /\ presp' = parent_body

(* An exception leaves the page loop and, in a child stream, the for loop  *)
(* over the parents.                                                       *)
Propagate ==
    /\ raised' = TRUE
    /\ IF who = "self" /\ cls \in ChildStreams /\ after_raise(pending) # "failed"
       THEN StartChildTraversal(pending)
       ELSE /\ pc' = "failed"
            /\ UNCHANGED <<who, pending, cur, tok, resp, trav>>

(* The server answers the parent's request with a body; the parent's page  *)
(* loop handles it: its records go to the child's for loop.                *)
HandleParentPage(body) ==
    /\ pc = "await" /\ who = "parent"
    /\ parsed' = parse_response(body)
    /\ IF parse_response(body).k = "raise"
       THEN /\ Propagate
            /\ UNCHANGED <<ptok, presp, parents>>
       ELSE LET recs == page_records(parse_response(body))
                waiting == pending \o recs
            IN  /\ parents' = parents \o recs
                /\ raised' = raised
                /\ IF loop_body_runs(waiting, body)
                   THEN /\ StartChildTraversal(waiting)
                        /\ presp' = Envelope(body)
                        /\ UNCHANGED ptok
                   ELSE /\ ResumeParent(Envelope(body))
                        /\ pending' = waiting
                        /\ UNCHANGED <<cur, tok, resp, trav>>
    /\ req' = <<>>
    /\ UNCHANGED <<streamList, auth, cls, emitted, nreq, nChildReq,
                   invocation, nChildInv, nParentFirst>>

(* The server answers the stream's own request with a body; the page loop  *)
(* handles it: it yields the records, then computes the next cursor and    *)
(* goes on or ends.  When a child's own traversal ends, the for loop takes *)
(* the next parent record, or the parent's page loop resumes.              *)
HandlePage(body) ==
    /\ pc = "await" /\ who = "self"
    /\ parsed' = parse_response(body)
    /\ IF parse_response(body).k = "raise"
       THEN /\ Propagate
            /\ UNCHANGED <<emitted, ptok, presp>>
       ELSE LET recs == page_records(parse_response(body))
                t == next_page_token(body)
            IN  /\ emitted' = emitted \o Yielded(recs, cur, trav)
                /\ raised' = raised
                /\ IF ~pagination_complete(t)
                   THEN /\ tok' = t
                        /\ resp' = Envelope(body)
                        /\ pc' = "request"
                        /\ UNCHANGED <<who, ptok, presp, pending, cur, trav>>
                   ELSE IF cls \notin ChildStreams
                   THEN /\ tok' = t
                        /\ resp' = NoBody
                        /\ pc' = "done"
                        /\ UNCHANGED <<who, ptok, presp, pending, cur, trav>>
                   ELSE IF pending # <<>>
                   THEN /\ StartChildTraversal(pending)
                        /\ UNCHANGED <<ptok, presp>>
                   ELSE /\ ResumeParent(presp)
                        /\ tok' = t
                        /\ resp' = NoBody
                        /\ UNCHANGED <<pending, cur, trav>>
    /\ req' = <<>>
    /\ UNCHANGED <<streamList, auth, cls, nreq, nChildReq,
                   parents, invocation, nChildInv, nParentFirst>>

(* Sending the request raises.                                             *)
RequestRaises ==
    /\ pc = "await"
    /\ parsed' = NoBody
    /\ Propagate
    /\ req' = <<>>
    /\ UNCHANGED <<streamList, auth, cls, ptok, presp, emitted, nreq,
                   nChildReq, parents, invocation, nChildInv, nParentFirst>>

Next ==
    \/ \E a \in AppIds, s \in Secrets : Streams(a, s)
    \/ \E c \in StreamClasses : Invoke(c)
    \/ SendRequest
    \/ \E body \in Bodies : HandleParentPage(body)
    \/ \E body \in Bodies : HandlePage(body)
    \/ RequestRaises

Spec == Init /\ [][Next]_vars

-----------------------------------------------------------------------------
(* Properties.                                                             *)

(* The body preceding the request in flight in its own page loop.          *)
Preceding == IF who = "parent" THEN presp ELSE resp

(* C1: next_page_token gives None for every body without a value at        *)
(* meta.next.offset: whenever the own page loop goes on from a body that   *)
(* lacks meta, meta.next or meta.next.offset, its token is None.           *)
C1_NoneWithoutOffset ==
    (resp # NoBody /\ ~HasOffset(resp)) => tok = None

(* C2: the traversal is DONE right after the first response without        *)
(* meta.next.offset: no request is in flight whose page loop was answered  *)
(* before with a body that lacks the offset.                               *)
C2_DoneAfterBodyWithoutOffset ==
    (pc = "await" /\ Preceding # NoBody) => HasOffset(Preceding)

(* C3: the first request of a traversal carries exactly {per_page: 100},   *)
(* every later one exactly {per_page: 100, offset: v}, v the               *)
(* meta.next.offset of the response preceding it in that traversal.        *)
C3_RequestParams ==
    pc = "await" =>
        IF Preceding = NoBody
        THEN req[1].params = [per_page |-> 100]
        ELSE /\ HasOffset(Preceding)
             /\ req[1].params =
                   [per_page |-> 100,
                    offset |-> Preceding.f["meta"].f["next"].f["offset"]]

(* C4: every request issued for a Groups-family stream carries             *)
(* X-PCO-API-Version 2018-08-01 and every request issued for a             *)
(* People-family stream 2020-07-22, the nested parent requests of a child  *)
(* stream included.                                                        *)
C4_VersionHeader ==
    req # <<>> =>
        /\ req[1].stream \in GroupsStreams <=> cls \in GroupsStreams
        /\ req[1].headers["X-PCO-API-Version"] =
              IF cls \in GroupsStreams THEN "2018-08-01" ELSE "2020-07-22"

(* Reached: a later page of the parent PeoplePerson requested inside       *)
(* PeoplePhoneNumber.read_records.                                         *)
C4_NestedParentRequest ==
    /\ req # <<>> /\ req[1].who = "parent"
    /\ cls = "PeoplePhoneNumber"
    /\ "offset" \in DOMAIN req[1].params

(* The k-th traversal of a child is made for the k-th parent the parent    *)
(* stream yielded; records of a later traversal never precede those of an  *)
(* earlier one; a child request carries the current parent's id.           *)
C5_Grouped ==
    cls \in ChildStreams =>
        /\ \A i \in 1..Len(emitted) :
              /\ emitted[i].trav \in 1..Len(parents)
              /\ emitted[i].slice = SliceFor(cls, parents[emitted[i].trav])
        /\ \A i, j \in 1..Len(emitted) :
              i < j => emitted[i].trav <= emitted[j].trav
        /\ (req # <<>> /\ req[1].who = "self") =>
              /\ trav \in 1..Len(parents)
              /\ Len(req[1].path) = 3
              /\ req[1].path[2] = parents[trav].f["id"].s

(* A page handled by the stream's own loop appends its records, in page    *)
(* order, with the current stream_slice, to what was yielded before.       *)
C5_PageOrder ==
    (pc = "await" /\ who = "self" /\ parsed'.k = "list") =>
        /\ Len(emitted') = Len(emitted) + Len(parsed'.items)
        /\ \A i \in 1..Len(emitted) : emitted'[i] = emitted[i]
        /\ \A i \in 1..Len(parsed'.items) :
              /\ emitted'[Len(emitted) + i].rec = parsed'.items[i]
              /\ emitted'[Len(emitted) + i].slice = cur
              /\ emitted'[Len(emitted) + i].trav = trav

(* C5: a child stream yields its records grouped by parent in the order    *)
(* the parent stream yielded the parents: the k-th traversal of the child  *)
(* is made for the k-th parent, its requests carry that parent's id in the *)
(* path, its records come out in page order, and the records of a later    *)
(* traversal never precede those of an earlier one, so no parent's records *)
(* are interleaved with another's or yielded twice.                        *)
C5_GroupedByParent == [](C5_Grouped) /\ [][C5_PageOrder]_vars

(* Reached: two different parents, each with a record yielded.             *)
C5_TwoParentsEmitted ==
    /\ cls \in ChildStreams
    /\ Len(parents) = 2 /\ parents[1] # parents[2]
    /\ \E i, j \in 1..Len(emitted) :
          emitted[i].trav = 1 /\ emitted[j].trav = 2

(* C6 as stated: the parent traversal is complete before the child issues  *)
(* a request, so no parent request follows a child request.                *)
C6_ParentCompleteFirst ==
    (req # <<>> /\ req[1].who = "parent") => nChildReq = 0

(* C6 as amended: the parent stream is consumed page by page.  A child     *)
(* request is issued only after the parent page holding its parent was     *)
(* fetched, and a parent page is requested only when the child traversals  *)
(* of all parents yielded so far have ended; records are yielded only      *)
(* after a child request.                                                  *)
C6_ParentPagesInterleaved ==
    cls \in ChildStreams =>
        /\ (req # <<>> /\ req[1].who = "self") =>
              /\ presp # NoBody
              /\ trav \in 1..Len(parents)
        /\ (req # <<>> /\ req[1].who = "parent") =>
              /\ pending = <<>>
              /\ trav = Len(parents)
        /\ emitted # <<>> => nChildReq > 0

(* Reached: a later parent page requested after a child request.           *)
C6_ParentRequestAfterChildRequest ==
    /\ cls \in ChildStreams
    /\ req # <<>> /\ req[1].who = "parent"
    /\ "offset" \in DOMAIN req[1].params
    /\ nChildReq > 0

(* Handling a page for which parse_response gave no array changes neither *)
(* the records yielded nor the parents, raises nothing and leaves the loop *)
(* going on or done.                                                       *)
C7_MissingData ==
    (pc = "await" /\ parsed' # NoBody /\ parsed'.k # "list") =>
        /\ emitted' = emitted
        /\ parents' = parents
        /\ raised' = raised
        /\ pc' \in {"request", "done"}

Catalog ==
    {"GroupsEvent", "GroupsGroupType", "GroupsGroup", "GroupsMembership",
     "GroupsAttendance", "PeoplePerson", "PeopleAddress", "PeopleEmail",
     "PeopleHousehold", "PeopleCampus", "PeoplePhoneNumber"}

(* C8: streams(config) holds exactly one stream per resource of the        *)
(* catalog, the three child streams included, all with the one             *)
(* authenticator.                                                          *)
C8_StreamListIsCatalog ==
    streamList # <<>> =>
        /\ {streamList[i].cls : i \in 1..Len(streamList)} = Catalog
        /\ Len(streamList) = Cardinality(Catalog)
        /\ \A i \in 1..Len(streamList) : streamList[i].authenticator = auth

(* A child invocation has begun and its parent's first request is still to *)
(* be sent.                                                                *)
FirstParentRequestDue ==
    cls \in ChildStreams /\ pc = "request" /\ who = "parent" /\ presp = NoBody
    /\ parents = <<>>

(* C9: every invocation of a child stream enumerates its parent anew: the  *)
(* parent's first request, without offset, has been issued once per child  *)
(* invocation, and the records yielded belong to parents the parent stream *)
(* yielded in this invocation.                                             *)
C9_ParentReenumerated ==
    /\ nParentFirst + (IF FirstParentRequestDue THEN 1 ELSE 0) = nChildInv
    /\ cls \in ChildStreams =>
          \A i \in 1..Len(emitted) :
              \E k \in 1..Len(parents) :
                  emitted[i].slice = SliceFor(cls, parents[k])

(* Reached: a second child invocation that yielded a record.               *)
C9_SecondInvocationYields ==
    /\ nChildInv >= 2
    /\ nParentFirst = nChildInv
    /\ emitted # <<>>

(* Once a request raised, the invocation has failed.                       *)
C10_Failed == raised => pc = "failed"

(* A failed invocation issues no request, yields no record and takes no    *)
(* further parent; the raising step yields nothing.                        *)

C10_NothingAfter ==
    /\ (raised /\ invocation' = invocation) =>
          (nreq' = nreq /\ emitted' = emitted /\ pending' = pending)
    /\ (~raised /\ raised') => emitted' = emitted

(* C10: an exception raised in a child's traversal leaves read_records:    *)
(* the invocation has failed, and it issues no request and yields no       *)
(* record afterwards for that parent or a later one; what was yielded      *)
(* before stays.                                                           *)
C10_FailurePropagates == [](C10_Failed) /\ [][C10_NothingAfter]_vars

(* Reached: a child's traversal raised after records were yielded, with a  *)
(* parent still waiting.                                                   *)
C10_FailedWithParentsWaiting ==
    /\ raised /\ cls \in ChildStreams /\ who = "self"
    /\ pending # <<>> /\ emitted # <<>>

====
